---- MODULE Spec2Model ----
(***************************************************************************)
(* Debris Tracker CubeSat: the detection pipeline (src/algorithm/          *)
(* detector.py), its batch driver processa_sequenza and the live loop of   *)
(* src/algorithm/live_detector.py.                                         *)
(*                                                                         *)
(* Numbers.  The code works on float32/float64 grids.  Every real value of *)
(* the pipeline is kept here as an exact integer count of 1/FP: a frame    *)
(* sample v is FP*v after astype(float32), and the three nested medians    *)
(* (background, residual median, MAD) each halve at most once, so FP = 8   *)
(* keeps them exact.  sigma and soglia carry the factor 1.4826 and are     *)
(* kept in units of 1/(FP*SCALA); on 8-bit samples the comparison of a     *)
(* residual with the float threshold has the outcome of the exact          *)
(* comparison.  Eccentricity is never evaluated as a number: regionprops'  *)
(* value sqrt(1 - l2/l1) is compared with the floor exactly, from the      *)
(* integer central moments of the region.  The values the code rounds with *)
(* round(x, ndigits) are binary floats: the centroid is the float64        *)
(* quotient of a coordinate sum by the area, sigma is the product          *)
(* mad * 1.4826 in float64 or in float32, depending on NumPy's scalar      *)
(* promotion; both are computed bit for bit (section "binary floating      *)
(* point") and rounded as NumPy rounds: multiply by 10^ndigits, rint.      *)
(***************************************************************************)
EXTENDS Integers, Sequences, FiniteSets, TLC

VARIABLES
  pc,                 \* where the live session is: "calibra", "scan", "tasto", "fine", "errore"
  copione,            \* which sequence of scenes the camera delivers
  nacq,               \* frames delivered by the camera so far
  frames_cal,         \* calibra's local list
  fondo,              \* main's background model
  fondo_da,           \* history: the acquisition numbers of the frames fondo was built from
  buffer,             \* main's rolling deque
  n_frame,            \* main's frame counter
  tutti_rilevamenti,  \* main's session detection list
  rilevato,           \* history: the last scanned frame and the frames behind the model it was detected against
  salvati,            \* the lists handed to salva_risultati
  arg,                \* input of the function under test (pure-function specifications)
  ret                 \* its result

liveVars ==
  << pc, copione, nacq, frames_cal, fondo, fondo_da, buffer, n_frame,
     tutti_rilevamenti, rilevato, salvati >>
vars == << liveVars, arg, ret >>

\* ------------------------------------------------------------------ bounds
H == 5
W == 11
MaxSeq == 2
MaxK == 5
MaxAcq == 152
MaxFrames == 20

\* ------------------------------------------------------- program constants
SIGMA_SOGLIA == 4
ECCENTRICITA_MIN_PCT == 90
AREA_MIN_STREAK == 15
AREA_MIN_STELLA == 3
MAD_SIGMA_E4 == 14826
SCALA == 10000
FP == 8
N_FRAME_CALIBRAZIONE == 50
BUFFER_SIZE == 100
AGGIORNA_FONDO_OGNI == 30

\* ------------------------------------------------------------- arithmetic
Max(a, b) == IF a >= b THEN a ELSE b
Abs(a) == IF a >= 0 THEN a ELSE -a

Range(f) == {f[x] : x \in DOMAIN f}
Last(q) == q[Len(q)]

RECURSIVE SumOver(_, _)
\* sum of f[x] for x in S
SumOver(S, f) ==
  IF S = {} THEN 0
  ELSE LET x == CHOOSE y \in S : TRUE IN f[x] + SumOver(S \ {x}, f)

\* p/q >= r/s for p, r >= 0 and q, s > 0, by continued fractions (no product
\* of the four numbers is formed: TLC's integers are 32 bits wide)
RECURSIVE FracGE(_, _, _, _)
FracGE(p, q, r, s) ==
  LET ip == p \div q
      ir == r \div s
      pr == p % q
      rr == r % s
  IN IF ip # ir THEN ip > ir
     ELSE IF rr = 0 THEN TRUE
     ELSE IF pr = 0 THEN FALSE
     ELSE FracGE(s, rr, q, pr)

\* ------------------------------------------------- binary floating point
\* Natural numbers of any size are sequences of LIMB-bit limbs, least
\* significant first, without leading zero limbs.
BASE == 32768
LIMB == 15

RECURSIVE Pow2(_)
Pow2(n) == IF n = 0 THEN 1 ELSE 2 * Pow2(n - 1)

RECURSIVE BitLenSmall(_)
BitLenSmall(n) == IF n = 0 THEN 0 ELSE 1 + BitLenSmall(n \div 2)

RECURSIVE BigOf(_)
BigOf(n) == IF n = 0 THEN << >> ELSE << n % BASE >> \o BigOf(n \div BASE)

RECURSIVE BigToInt(_)
BigToInt(b) == IF b = << >> THEN 0 ELSE Head(b) + BASE * BigToInt(Tail(b))

RECURSIVE BigTrim(_)
BigTrim(b) ==
  IF b = << >> THEN << >>
  ELSE IF b[Len(b)] = 0 THEN BigTrim(SubSeq(b, 1, Len(b) - 1)) ELSE b

RECURSIVE BigMulSmall(_, _, _)
BigMulSmall(b, s, carry) ==
  IF b = << >> THEN BigOf(carry)
  ELSE LET t == Head(b) * s + carry
       IN << t % BASE >> \o BigMulSmall(Tail(b), s, t \div BASE)

BitLen(b) == IF b = << >> THEN 0 ELSE LIMB * (Len(b) - 1) + BitLenSmall(b[Len(b)])

Bit(b, i) ==
  IF i \div LIMB + 1 > Len(b) THEN 0
  ELSE (b[i \div LIMB + 1] \div Pow2(i % LIMB)) % 2

BigShl(b, t) ==
  IF b = << >> THEN << >>
  ELSE [i \in 1 .. t \div LIMB |-> 0] \o BigTrim(BigMulSmall(b, Pow2(t % LIMB), 0))

BigShr(b, t) ==
  LET y == SubSeq(b, t \div LIMB + 1, Len(b))
      r == t % LIMB
  IN BigTrim([i \in DOMAIN y |->
                y[i] \div Pow2(r)
                + (IF i < Len(y) THEN (y[i + 1] % Pow2(r)) * Pow2(LIMB - r) ELSE 0)])

RECURSIVE BigInc(_)
BigInc(b) ==
  IF b = << >> THEN << 1 >>
  ELSE IF Head(b) + 1 < BASE THEN << Head(b) + 1 >> \o Tail(b)
  ELSE << 0 >> \o BigInc(Tail(b))

\* b / 2^t rounded to the nearest integer, ties to even
RoundShift(b, t) ==
  IF t = 0 THEN b
  ELSE LET q == BigShr(b, t)
           half == Bit(b, t - 1) = 1
           sticky == \E i \in 0 .. t - 2 : Bit(b, i) = 1
       IN IF half /\ (sticky \/ Bit(b, t) = 1) THEN BigInc(q) ELSE q

\* floor(b / d) and b mod d for 0 < d < BASE, from the top limb down
RECURSIVE BigDivSmall(_, _)
BigDivSmall(b, d) ==
  IF b = << >> THEN [q |-> << >>, r |-> 0]
  ELSE LET hi == BigDivSmall(Tail(b), d)
           t == hi.r * BASE + Head(b)
       IN [q |-> << t \div d >> \o hi.q, r |-> t % d]

\* a float is m * 2^e; FRound keeps p significant bits
FRound(m, e, p) ==
  LET n == BitLen(m)
  IN IF n <= p THEN [m |-> m, e |-> e]
     ELSE [m |-> RoundShift(m, n - p), e |-> e + n - p]

\* the float nearest a / b
FDiv(a, b, p) ==
  LET s == p + 2 + BitLenSmall(b)
      dv == BigDivSmall(BigShl(BigOf(a), s), b)
  IN FRound(BigTrim(BigMulSmall(BigTrim(dv.q), 2, IF dv.r # 0 THEN 1 ELSE 0)), - (s + 1), p)

\* f * s for an integer 0 <= s < BASE
FMulInt(f, s, p) == FRound(BigTrim(BigMulSmall(f.m, s, 0)), f.e, p)

\* rint(f)
FRint(f) ==
  IF f.e >= 0 THEN BigToInt(BigShl(f.m, f.e)) ELSE BigToInt(RoundShift(f.m, - f.e))

\* significand bits of the scalar type
Significand(scalare) == IF scalare = "float32" THEN 24 ELSE 53

\* round(f, ndigits) of a NumPy float scalar: f * 10^ndigits, rint; the
\* result, which the code divides by 10^ndigits again, is kept as the
\* integer count of 10^-ndigits
round(f, ndigits, p) == FRint(FMulInt(f, IF ndigits = 2 THEN 100 ELSE 1000, p))

\* the literal 1.4826 as a float64, and converted to float32
C64 == FDiv(MAD_SIGMA_E4, SCALA, 53)
C32 == FRound(C64.m, C64.e, 24)

\* np.median of the values of a non-empty finite function: the middle order
\* statistic, or the mean of the two middle ones
Kth(f, k) ==
  LET le(v) == Cardinality({x \in DOMAIN f : f[x] <= v})
  IN CHOOSE v \in Range(f) :
       /\ le(v) >= k
       /\ \A u \in Range(f) : u < v => le(u) < k

Median(f) ==
  LET n == Cardinality(DOMAIN f)
  IN IF n % 2 = 1 THEN Kth(f, (n + 1) \div 2)
     ELSE (Kth(f, n \div 2) + Kth(f, n \div 2 + 1)) \div 2

\* ------------------------------------------------------------------ grids
Pix == (0 .. H - 1) \X (0 .. W - 1)

\* a frame with samples bg everywhere and fg on the pixels of S
Img(S, fg, bg) == [p \in Pix |-> IF p \in S THEN fg ELSE bg]

\* ---------------------------------------------------------- detector.py
\* np.stack(frames, axis=0) raises ValueError on an empty list and on frames
\* of different shape
StackRaises(frames) ==
  Len(frames) = 0 \/ \E i \in DOMAIN frames : DOMAIN frames[i] # DOMAIN frames[1]

\* mutant of calcola_fondo_mediano: the pixelwise mean of the stack
calcola_fondo_media(frames) ==
  [p \in DOMAIN frames[1] |->
     (FP * SumOver(DOMAIN frames, [i \in DOMAIN frames |-> frames[i][p]])) \div Len(frames)]

\* STEP 1: pixelwise median of the stack (defined when np.stack succeeds)
calcola_fondo_mediano(frames) ==
  [p \in DOMAIN frames[1] |-> Median([i \in DOMAIN frames |-> FP * frames[i][p]])]

\* the shape (rows, columns) of a grid
Shape(g) ==
  << Cardinality({p[1] : p \in DOMAIN g}), Cardinality({p[2] : p \in DOMAIN g}) >>

\* frame_f - fondo raises ValueError when the two shapes cannot be broadcast:
\* they differ in a dimension in which neither has size 1
SubtractRaises(frame, sfondo) ==
  /\ DOMAIN frame # DOMAIN sfondo
  /\ \E i \in 1 .. 2 :
       /\ Shape(frame)[i] # Shape(sfondo)[i]
       /\ Shape(frame)[i] # 1
       /\ Shape(sfondo)[i] # 1

\* STEP 2: residual, negative values clipped to zero; grids of different
\* shape are broadcast: a dimension of size 1 is repeated along the other
\* grid's size (defined when the subtraction does not raise)
sottrai_fondo(frame, sfondo) ==
  IF DOMAIN frame = DOMAIN sfondo
  THEN [p \in DOMAIN frame |-> Max(FP * frame[p] - sfondo[p], 0)]
  ELSE LET a == Shape(frame)
           b == Shape(sfondo)
           At(p, sh) == << IF sh[1] = 1 THEN 0 ELSE p[1], IF sh[2] = 1 THEN 0 ELSE p[2] >>
       IN [p \in (0 .. Max(a[1], b[1]) - 1) \X (0 .. Max(a[2], b[2]) - 1) |->
             Max(FP * frame[At(p, a)] - sfondo[At(p, b)], 0)]

\* mutant of sogliatura: the threshold is mediana - k * sigma
sogliatura_mut_sign(residuo, sigma_threshold) ==
  LET mediana == Median(residuo)
      mad == Median([p \in DOMAIN residuo |-> Abs(residuo[p] - mediana)])
      sigma == mad * MAD_SIGMA_E4
      soglia == mediana * SCALA - sigma_threshold * sigma
  IN [maschera |-> [p \in DOMAIN residuo |->
                      IF residuo[p] * SCALA > soglia THEN 1 ELSE 0],
      soglia |-> soglia,
      sigma |-> sigma]

\* STEP 3: mask of the pixels above mediana + k * sigma, sigma = 1.4826 * MAD
sogliatura(residuo, sigma_threshold) ==
  LET mediana == Median(residuo)
      mad == Median([p \in DOMAIN residuo |-> Abs(residuo[p] - mediana)])
      sigma == mad * MAD_SIGMA_E4
      soglia == mediana * SCALA + sigma_threshold * sigma
  IN [maschera |-> [p \in DOMAIN residuo |->
                      IF residuo[p] * SCALA > soglia THEN 1 ELSE 0],
      soglia |-> soglia,
      sigma |-> sigma]

\* skimage.measure.label(maschera, connectivity=2): the 8-connected regions
\* of the foreground, numbered in raster order of their first pixel
Adj(p, q) == Abs(p[1] - q[1]) <= 1 /\ Abs(p[2] - q[2]) <= 1

RECURSIVE Grow(_, _)
Grow(S, C) ==
  LET N == {q \in S \ C : \E p \in C : Adj(p, q)}
  IN IF N = {} THEN C ELSE Grow(S, C \cup N)

FirstRaster(S) ==
  CHOOSE p \in S : \A q \in S : p[1] < q[1] \/ (p[1] = q[1] /\ p[2] <= q[2])

RECURSIVE LabelSet(_)
LabelSet(S) ==
  IF S = {} THEN << >>
  ELSE LET C == Grow(S, {FirstRaster(S)}) IN << C >> \o LabelSet(S \ C)

label(maschera) == LabelSet({p \in DOMAIN maschera : maschera[p] # 0})

\* skimage.measure.regionprops of one region: area, centroid (as the sums of
\* the coordinates, to be divided by area), bounding box, and the central
\* second moments times area^2: m_rr, m_rc, m_cc, from which regionprops
\* derives eccentricity, orientation and the axis lengths
RegionProps(C) ==
  LET area == Cardinality(C)
      sr == SumOver(C, [p \in C |-> p[1]])
      sc == SumOver(C, [p \in C |-> p[2]])
      srr == SumOver(C, [p \in C |-> p[1] * p[1]])
      scc == SumOver(C, [p \in C |-> p[2] * p[2]])
      src == SumOver(C, [p \in C |-> p[1] * p[2]])
      rows == {p[1] : p \in C}
      cols == {p[2] : p \in C}
      lo(S) == CHOOSE x \in S : \A y \in S : x <= y
      hi(S) == CHOOSE x \in S : \A y \in S : x >= y
  IN [area |-> area,
      centroid |-> << sr, sc >>,
      bbox |-> << lo(rows), lo(cols), hi(rows) + 1, hi(cols) + 1 >>,
      momenti |-> << area * srr - sr * sr, area * src - sr * sc, area * scc - sc * sc >>]

regionprops(etichette) == [i \in DOMAIN etichette |-> RegionProps(etichette[i])]

\* obj.eccentricity >= pct/100.  With T = m_rr + m_cc and
\* Q = (m_rr - m_cc)^2 + 4 m_rc^2 the eigenvalues of the inertia tensor are
\* (T +- sqrt Q)/2 (up to the factor area^2), eccentricity is
\* sqrt(1 - l2/l1) and 0 when l1 = 0, so with n = pct, d = 100:
\*   ecc >= n/d  <=>  Q / T^2 >= n^4 / (2 d^2 - n^2)^2
EccGE(obj, pct) ==
  LET m == obj.momenti
      T == m[1] + m[3]
      Q == (m[1] - m[3]) * (m[1] - m[3]) + 4 * m[2] * m[2]
      n2 == pct * pct
      dd == 2 * 100 * 100 - n2
  IN IF T = 0 THEN pct <= 0
     ELSE FracGE(Q, T * T, n2 * n2, dd * dd)

\* obj.eccentricity > pct/100 (used by the mutant of Classe)
EccGT(obj, pct) ==
  LET m == obj.momenti
      T == m[1] + m[3]
      Q == (m[1] - m[3]) * (m[1] - m[3]) + 4 * m[2] * m[2]
      n2 == pct * pct
      dd == 2 * 100 * 100 - n2
  IN IF T = 0 THEN pct < 0
     ELSE ~ FracGE(n2 * n2, dd * dd, Q, T * T)

\* mutant of Classe: both Debris comparisons strict
Classe_mut_strict(obj) ==
  IF obj.area < AREA_MIN_STELLA THEN "rumore"
  ELSE IF EccGT(obj, ECCENTRICITA_MIN_PCT) /\ obj.area > AREA_MIN_STREAK THEN "detrito"
  ELSE "stella"

\* the class one region gets in classifica_oggetti's loop
Classe(obj) ==
  IF obj.area < AREA_MIN_STELLA THEN "rumore"
  ELSE IF EccGE(obj, ECCENTRICITA_MIN_PCT) /\ obj.area >= AREA_MIN_STREAK THEN "detrito"
  ELSE "stella"

Detrito(obj) ==
  [centroid |-> obj.centroid, bbox |-> obj.bbox, area |-> obj.area, momenti |-> obj.momenti]

Stella(obj) ==
  [centroid |-> obj.centroid, area |-> obj.area, momenti |-> obj.momenti]

\* STEP 4: the two lists, each in labelling order
classifica_oggetti(maschera) ==
  LET proprieta == regionprops(label(maschera))
      Pick(c) == SelectSeq(proprieta, LAMBDA obj : Classe(obj) = c)
  IN [detriti |-> [i \in DOMAIN Pick("detrito") |-> Detrito(Pick("detrito")[i])],
      stelle |-> [i \in DOMAIN Pick("stella") |-> Stella(Pick("stella")[i])]]


\* STEP 5: processa_sequenza.  timestamps is << >> (None or an empty list,
\* both false in "if timestamps") or one clock value per frame; a record's
\* timestamp is timestamps[i].isoformat() or the label frame_<i>.  eccentricita, orientazione and lunghezza_px are roundings of
\* functions of the region's second moments and are carried as "momenti".
\* scalare is the type NumPy gives the product mad * 1.4826 of a float32
\* scalar and a Python float: float64 under the scalar promotion of NumPy 1,
\* float32 under that of NumPy 2.

\* the float sigma = mad * 1.4826 of sogliatura, from its exact stand-in
\* x = FP * mad * MAD_SIGMA_E4
SigmaFloat(x, scalare) ==
  LET p == Significand(scalare)
      prodotto == FMulInt(IF p = 24 THEN C32 ELSE C64, x \div MAD_SIGMA_E4, p)
  IN [m |-> prodotto.m, e |-> prodotto.e - 3]

\* obj.centroid: the float64 mean of a coordinate over the region
CentroidFloat(somma, area) == FDiv(somma, area, 53)

RilevamentiFrame(frame, sfondo, i, timestamps, scalare) ==
  LET residuo == sottrai_fondo(frame, sfondo)
      st == sogliatura(residuo, SIGMA_SOGLIA)
      detriti == classifica_oggetti(st.maschera).detriti
      ts == IF timestamps # << >>
            THEN [iso |-> timestamps[i + 1]] ELSE [frame_ |-> i]
  IN [j \in DOMAIN detriti |->
        [frame_index |-> i,
         timestamp |-> ts,
         centroid_y |-> round(CentroidFloat(detriti[j].centroid[1], detriti[j].area), 2, 53),
         centroid_x |-> round(CentroidFloat(detriti[j].centroid[2], detriti[j].area), 2, 53),
         area_px |-> detriti[j].area,
         momenti |-> detriti[j].momenti,
         sigma_soglia |-> round(SigmaFloat(st.sigma, scalare), 3, Significand(scalare))]]

\* mutant of processa_sequenza: the model of frame n is built from the frames
\* up to n only
RECURSIVE RilevamentiCausali(_, _, _, _)
RilevamentiCausali(frames, timestamps, scalare, n) ==
  IF n = 0 THEN << >>
  ELSE RilevamentiCausali(frames, timestamps, scalare, n - 1)
       \o RilevamentiFrame(frames[n], calcola_fondo_mediano(SubSeq(frames, 1, n)),
                           n - 1, timestamps, scalare)

processa_sequenza_causale(frames, timestamps, scalare) ==
  IF StackRaises(frames) THEN [errore |-> "ValueError"]
  ELSE [rilevamenti |-> RilevamentiCausali(frames, timestamps, scalare, Len(frames)),
        fondo |-> calcola_fondo_mediano(frames)]

\* the loop of processa_sequenza over the first n frames
RECURSIVE RilevamentiFino(_, _, _, _, _)
RilevamentiFino(frames, sfondo, timestamps, scalare, n) ==
  IF n = 0 THEN << >>
  ELSE RilevamentiFino(frames, sfondo, timestamps, scalare, n - 1)
       \o RilevamentiFrame(frames[n], sfondo, n - 1, timestamps, scalare)

processa_sequenza(frames, timestamps, scalare) ==
  IF StackRaises(frames) THEN [errore |-> "ValueError"]
  ELSE LET sfondo == calcola_fondo_mediano(frames)
       IN [rilevamenti |-> RilevamentiFino(frames, sfondo, timestamps, scalare, Len(frames)),
           fondo |-> sfondo]

\* ---------------------------------------------------------------- inputs
\* Regions used to build masks and frames.  Arco15 has area 15 and
\* eccentricity exactly 0.90 (m_rr = 456, m_rc = 0, m_cc = 2400); Onda14 has
\* area 14 and eccentricity exactly 0.90 (133, 0, 700).
Rect(r0, r1, c0, c1) == (r0 .. r1) \X (c0 .. c1)

Arco15 ==
  { <<0, 3>>, <<0, 4>>, <<0, 6>>, <<0, 7>>, <<1, 2>>, <<1, 5>>, <<1, 8>>,
    <<2, 2>>, <<2, 8>>, <<3, 0>>, <<3, 1>>, <<3, 9>>, <<3, 10>>, <<4, 1>>, <<4, 9>> }
Onda14 ==
  { <<1, 1>>, <<1, 2>>, <<2, 2>>, <<3, 2>>, <<0, 3>>, <<1, 3>>, <<1, 4>>,
    <<2, 4>>, <<3, 4>>, <<1, 5>>, <<1, 6>>, <<2, 6>>, <<1, 7>>, <<2, 7>> }
Striscia16 == Rect(0, 1, 0, 7)
Striscia15 == Striscia16 \ { <<1, 7>> }
Striscia14 == Rect(0, 1, 0, 6)
StrisciaBassa == Rect(3, 4, 3, 10) \ { <<3, 3>> }
Blocco15 == Rect(0, 2, 0, 4)
Blocco16 == Rect(0, 3, 0, 3)
Tratto3 == Rect(0, 0, 0, 2)
Punti == Rect(4, 4, 4, 7)

Forme ==
  { {}, Arco15, Onda14, Striscia16, Striscia15, Striscia14, Blocco15, Blocco16, Tratto3 }


\* masks: one of the regions above plus any pixels of the bottom row segment
Maschere == { Img(F \cup E, 1, 0) : F \in Forme, E \in SUBSET Punti }

\* frames: a flat sky at two levels, a sky with a fixed noise pattern, and
\* bright regions on them
Rumore == [p \in Pix |-> 10 + ((p[1] + 2 * p[2]) % 3)]
Su(S, fg, base) == [p \in Pix |-> IF p \in S THEN fg ELSE base[p]]

Cielo10 == Img({}, 0, 10)
Cielo20 == Img({}, 0, 20)
CieloStriscia == Su(Striscia15, 200, Cielo10)
CieloBlocco == Su(Blocco16, 200, Cielo10)
Scene ==
  { Cielo10, Cielo20, Rumore, CieloStriscia, Su(Striscia15, 200, Rumore),
    Su(Striscia14, 200, Cielo10), CieloBlocco, Su(StrisciaBassa, 200, Cielo10) }

\* a dark frame, and a streak over a haze: against the median of the two the
\* hazy frame has MAD 7.5, so that sigma = 11.1195 lies midway between two
\* thousandths
Nero == Img({}, 0, 0)
Alone == Rect(3, 4, 0, 5) \cup { << 3, 6 >> }
Soffuso == [p \in Pix |-> IF p \in Striscia15 THEN 255 ELSE IF p \in Alone THEN 15 ELSE 0]

\* a frame of a single row, bright in its first two columns
Riga == [p \in (0 .. 0) \X (0 .. W - 1) |-> IF p[2] <= 1 THEN 200 ELSE 10]

\* frames of another, smaller resolution: a still sky with a different level
\* at every pixel, and the same sky with a bright and with a dark object
Pixp == (0 .. 1) \X (0 .. 2)
Quieto == [p \in Pixp |-> 10 + 3 * p[1] + p[2]]
Chiaro == [p \in Pixp |-> IF p[2] <= 1 THEN 200 ELSE Quieto[p]]
Scuro == [p \in Pixp |-> IF p[1] = 0 THEN 0 ELSE Quieto[p]]
Transiti == { Chiaro, Scuro }

RECURSIVE SeqsUpTo(_, _)
\* all sequences over S of length at most n
SeqsUpTo(S, n) ==
  IF n = 0 THEN { << >> }
  ELSE LET T == SeqsUpTo(S, n - 1)
       IN T \cup { Append(s, x) : s \in T, x \in S }


\* --------------------------------------------- pure-function specifications
\* the function under test has not been called yet
NonChiamata == [chiamata |-> FALSE]

LiveFermo ==
  /\ pc = "idle"
  /\ copione = 0
  /\ nacq = 0
  /\ frames_cal = << >>
  /\ fondo = << >>
  /\ fondo_da = {}
  /\ buffer = << >>
  /\ n_frame = 0
  /\ tutti_rilevamenti = << >>
  /\ rilevato = [frame |-> 0, modello |-> {}]
  /\ salvati = << >>

\* processa_sequenza on every sequence of at most MaxSeq frames, each a
\* scene, the dark or the hazy frame, or the small still sky, with and
\* without timestamps, under either scalar promotion
Scalari == { "float32", "float64" }

InitBatch ==
  /\ LiveFermo
  /\ \E s \in SeqsUpTo(Scene \cup { Nero, Soffuso, Quieto }, MaxSeq) :
       \E t \in {<< >>, [i \in DOMAIN s |-> 1000 + i]} : \E sc \in Scalari :
         arg = [frames |-> s, timestamps |-> t, scalare |-> sc]
  /\ ret = NonChiamata

Processa ==
  /\ pc = "idle" /\ ret = NonChiamata /\ "frames" \in DOMAIN arg
  /\ ret' = processa_sequenza(arg.frames, arg.timestamps, arg.scalare)
  /\ UNCHANGED << liveVars, arg >>

SpecBatch == InitBatch /\ [][Processa]_vars

\* sogliatura on the residual of every scene against the background of every
\* short sequence, at two multipliers k1 <= k2
Residui ==
  { sottrai_fondo(f, calcola_fondo_mediano(s)) :
      f \in Scene, s \in SeqsUpTo(Scene, MaxSeq) \ { << >> } }

InitSoglia ==
  /\ LiveFermo
  /\ \E r \in Residui : \E k1 \in 0 .. MaxK : \E k2 \in k1 .. MaxK :
       arg = [residuo |-> r, k1 |-> k1, k2 |-> k2]
  /\ ret = NonChiamata

Soglia ==
  /\ pc = "idle" /\ ret = NonChiamata /\ "residuo" \in DOMAIN arg
  /\ ret' = [s1 |-> sogliatura(arg.residuo, arg.k1), s2 |-> sogliatura(arg.residuo, arg.k2)]
  /\ UNCHANGED << liveVars, arg >>

SpecSoglia == InitSoglia /\ [][Soglia]_vars

\* classifica_oggetti on every mask of Maschere
InitClasse ==
  /\ LiveFermo
  /\ \E m \in Maschere : arg = [maschera |-> m]
  /\ ret = NonChiamata

Classifica ==
  /\ pc = "idle" /\ ret = NonChiamata /\ "maschera" \in DOMAIN arg
  /\ ret' = classifica_oggetti(arg.maschera)
  /\ UNCHANGED << liveVars, arg >>

SpecClasse == InitClasse /\ [][Classifica]_vars

\* calcola_fondo_mediano on stacks of small frames: the still sky Quieto,
\* over which a bright object and a dark object pass; each covers some pixels
\* for one frame.  A stack has at most MaxFrames frames, at most two of them
\* with an object.

Stacks ==
  UNION { { [i \in 1 .. n |-> IF i = a THEN x ELSE IF i = b THEN y ELSE Quieto] :
              a \in 0 .. n, b \in 0 .. n, x \in Transiti, y \in Transiti } :
          n \in 0 .. MaxFrames }

InitFondo ==
  /\ LiveFermo
  /\ \E s \in Stacks : arg = [stack |-> s]
  /\ ret = NonChiamata

Fondo ==
  /\ pc = "idle" /\ ret = NonChiamata /\ "stack" \in DOMAIN arg
  /\ ret' = IF StackRaises(arg.stack) THEN [errore |-> "ValueError"]
            ELSE [mediano |-> calcola_fondo_mediano(arg.stack)]
  /\ UNCHANGED << liveVars, arg >>

SpecFondo == InitFondo /\ [][Fondo]_vars


\* ------------------------------------------------------- live_detector.py
\* The camera.  acquisisci_frame returns the next frame of the scene the
\* camera looks at; a frame carries its acquisition number, which stands for
\* the identity of the array object.  Two scenes at one resolution:
\*   transito: a flat sky crossed by a streak every 7th frame and showing a
\*             compact bright object every 5th frame;
\*   fisso:    a flat sky on which a streak appears at frame 60 and stays.
\* Three scenes in which the camera does not keep its resolution:
\*   presto:   a flat sky; from frame 25 on the frames are small;
\*   ridotto:  a flat sky; from frame 60 on the frames are small;
\*   riga:     a flat sky crossed by a streak every 7th frame; frame 55 has
\*             a single row.
Copioni == { "transito", "fisso" }
CopioniCambio == { "presto", "ridotto", "riga" }

CameraGray(c, k) ==
  IF c = "transito"
  THEN IF k % 7 = 0 THEN CieloStriscia
       ELSE IF k % 5 = 0 THEN CieloBlocco
       ELSE Cielo10
  ELSE IF c = "fisso" THEN (IF k < 60 THEN Cielo10 ELSE CieloStriscia)
  ELSE IF c = "presto" THEN (IF k < 25 THEN Cielo10 ELSE Quieto)
  ELSE IF c = "ridotto" THEN (IF k < 60 THEN Cielo10 ELSE Quieto)
  ELSE IF k = 55 THEN Riga
       ELSE IF k % 7 = 0 THEN CieloStriscia
       ELSE Cielo10

acquisisci_frame(c, k) == [id |-> k, gray |-> CameraGray(c, k)]

Grays(fs) == [i \in DOMAIN fs |-> fs[i].gray]
Ids(fs) == { fs[i].id : i \in DOMAIN fs }

\* deque(iterable, maxlen): the last maxlen items
Deque(fs, maxlen) ==
  IF Len(fs) <= maxlen THEN fs ELSE SubSeq(fs, Len(fs) - maxlen + 1, Len(fs))

\* mutant of DequeAppend: a full deque drops its two oldest items
DequeAppend_due(d, x, maxlen) ==
  IF Len(d) >= maxlen THEN Append(Tail(Tail(d)), x) ELSE Append(d, x)

\* deque.append on a bounded deque: a full deque drops its oldest item
DequeAppend(d, x, maxlen) ==
  IF Len(d) >= maxlen THEN Append(Tail(d), x) ELSE Append(d, x)

\* the records main appends for one scanned frame (the wall-clock timestamp
\* is not modelled; momenti stands for eccentricita, orientazione and
\* lunghezza_px, as in RilevamentiFrame)
RilevamentiLive(gray, sfondo, n) ==
  LET residuo == sottrai_fondo(gray, sfondo)
      st == sogliatura(residuo, SIGMA_SOGLIA)
      detriti == classifica_oggetti(st.maschera).detriti
  IN [j \in DOMAIN detriti |->
        [frame |-> n,
         centroid_x |-> round(CentroidFloat(detriti[j].centroid[2], detriti[j].area), 2, 53),
         centroid_y |-> round(CentroidFloat(detriti[j].centroid[1], detriti[j].area), 2, 53),
         momenti |-> detriti[j].momenti,
         area_px |-> detriti[j].area]]

Init ==
  /\ pc = "calibra"
  /\ copione \in Copioni
  /\ nacq = 0
  /\ frames_cal = << >>
  /\ fondo = << >>
  /\ fondo_da = {}
  /\ buffer = << >>
  /\ n_frame = 0
  /\ tutti_rilevamenti = << >>
  /\ rilevato = [frame |-> 0, modello |-> {}]
  /\ salvati = << >>
  /\ arg = [live |-> TRUE]
  /\ ret = NonChiamata

\* mutant of CalibraFrame: the new frames are added to the buffer in use
CalibraFrame_estende ==
  /\ pc = "calibra"
  /\ nacq < MaxAcq
  /\ LET fc == Append(frames_cal, acquisisci_frame(copione, nacq + 1))
     IN /\ nacq' = nacq + 1
        /\ IF Len(fc) < N_FRAME_CALIBRAZIONE
           THEN /\ frames_cal' = fc
                /\ UNCHANGED << pc, fondo, fondo_da, buffer >>
           ELSE /\ fondo' = calcola_fondo_mediano(Grays(fc))
                /\ fondo_da' = Ids(fc)
                /\ buffer' = Deque(buffer \o fc, BUFFER_SIZE)
                /\ frames_cal' = << >>
                /\ pc' = "scan"
  /\ UNCHANGED << copione, n_frame, tutti_rilevamenti, rilevato, salvati, arg, ret >>

\* mutant of CalibraFrame: a recalibration frame is also run through the
\* detection against the model in use
CalibraFrame_rileva ==
  /\ pc = "calibra"
  /\ nacq < MaxAcq
  /\ LET f == acquisisci_frame(copione, nacq + 1)
         fc == Append(frames_cal, f)
     IN /\ nacq' = nacq + 1
        /\ tutti_rilevamenti' =
             IF fondo = << >> THEN tutti_rilevamenti
             ELSE tutti_rilevamenti \o RilevamentiLive(f.gray, fondo, n_frame)
        /\ IF Len(fc) < N_FRAME_CALIBRAZIONE
           THEN /\ frames_cal' = fc
                /\ UNCHANGED << pc, fondo, fondo_da, buffer >>
           ELSE /\ fondo' = calcola_fondo_mediano(Grays(fc))
                /\ fondo_da' = Ids(fc)
                /\ buffer' = Deque(fc, BUFFER_SIZE)
                /\ frames_cal' = << >>
                /\ pc' = "scan"
  /\ UNCHANGED << copione, n_frame, rilevato, salvati, arg, ret >>

\* calibra: one pass of its acquisition loop; the pass that completes the
\* list builds the model and returns, and main assigns fondo and buffer; when
\* np.stack raises, the ValueError leaves calibra and main
CalibraFrame ==
  /\ pc = "calibra"
  /\ nacq < MaxAcq
  /\ LET fc == Append(frames_cal, acquisisci_frame(copione, nacq + 1))
     IN /\ nacq' = nacq + 1
        /\ IF Len(fc) < N_FRAME_CALIBRAZIONE
           THEN /\ frames_cal' = fc
                /\ UNCHANGED << pc, fondo, fondo_da, buffer >>
           ELSE IF StackRaises(Grays(fc))
           THEN /\ frames_cal' = fc
                /\ pc' = "invalido"
                /\ UNCHANGED << fondo, fondo_da, buffer >>
           ELSE /\ fondo' = calcola_fondo_mediano(Grays(fc))
                /\ fondo_da' = Ids(fc)
                /\ buffer' = Deque(fc, BUFFER_SIZE)
                /\ frames_cal' = << >>
                /\ pc' = "scan"
  /\ UNCHANGED << copione, n_frame, tutti_rilevamenti, rilevato, salvati, arg, ret >>

\* cap.read() fails inside calibra: RuntimeError leaves main
CalibraErrore ==
  /\ pc = "calibra"
  /\ pc' = "errore"
  /\ UNCHANGED << copione, nacq, frames_cal, fondo, fondo_da, buffer, n_frame,
                  tutti_rilevamenti, rilevato, salvati, arg, ret >>

\* mutant of ScanFrame: the periodic rebuild is done before the push
ScanFrame_ricostruisce_prima ==
  /\ pc = "scan"
  /\ nacq < MaxAcq
  /\ LET f == acquisisci_frame(copione, nacq + 1)
         n == n_frame + 1
         b == DequeAppend(buffer, f, BUFFER_SIZE)
     IN /\ nacq' = nacq + 1
        /\ n_frame' = n
        /\ tutti_rilevamenti' = tutti_rilevamenti \o RilevamentiLive(f.gray, fondo, n)
        /\ rilevato' = [frame |-> f.id, modello |-> fondo_da]
        /\ IF n % AGGIORNA_FONDO_OGNI = 0
           THEN fondo' = calcola_fondo_mediano(Grays(buffer)) /\ fondo_da' = Ids(buffer)
           ELSE UNCHANGED << fondo, fondo_da >>
        /\ buffer' = b
        /\ pc' = "tasto"
  /\ UNCHANGED << copione, frames_cal, salvati, arg, ret >>

\* mutant of ScanFrame: push and rebuild come first, the frame is detected
\* against the rebuilt model
ScanFrame_rileva_dopo ==
  /\ pc = "scan"
  /\ nacq < MaxAcq
  /\ LET f == acquisisci_frame(copione, nacq + 1)
         n == n_frame + 1
         b == DequeAppend(buffer, f, BUFFER_SIZE)
         nuovo == n % AGGIORNA_FONDO_OGNI = 0
         m == IF nuovo THEN calcola_fondo_mediano(Grays(b)) ELSE fondo
         da == IF nuovo THEN Ids(b) ELSE fondo_da
     IN /\ nacq' = nacq + 1
        /\ n_frame' = n
        /\ buffer' = b
        /\ fondo' = m
        /\ fondo_da' = da
        /\ tutti_rilevamenti' = tutti_rilevamenti \o RilevamentiLive(f.gray, m, n)
        /\ rilevato' = [frame |-> f.id, modello |-> da]
        /\ pc' = "tasto"
  /\ UNCHANGED << copione, frames_cal, salvati, arg, ret >>

\* mutant of ScanFrame: a rebuild that fails is skipped, the model in use is
\* kept and the loop goes on
ScanFrame_tollera ==
  /\ pc = "scan"
  /\ nacq < MaxAcq
  /\ LET f == acquisisci_frame(copione, nacq + 1)
         n == n_frame + 1
         b == DequeAppend(buffer, f, BUFFER_SIZE)
     IN /\ nacq' = nacq + 1
        /\ n_frame' = n
        /\ IF SubtractRaises(f.gray, fondo)
           THEN /\ pc' = "invalido"
                /\ UNCHANGED << tutti_rilevamenti, rilevato, buffer, fondo, fondo_da >>
           ELSE /\ tutti_rilevamenti' = tutti_rilevamenti \o RilevamentiLive(f.gray, fondo, n)
                /\ rilevato' = [frame |-> f.id, modello |-> fondo_da]
                /\ buffer' = b
                /\ pc' = "tasto"
                /\ IF n % AGGIORNA_FONDO_OGNI = 0 /\ ~ StackRaises(Grays(b))
                   THEN fondo' = calcola_fondo_mediano(Grays(b)) /\ fondo_da' = Ids(b)
                   ELSE UNCHANGED << fondo, fondo_da >>
  /\ UNCHANGED << copione, frames_cal, salvati, arg, ret >>

\* one pass of main's loop up to waitKey: acquire, count, detect against the
\* current model, log, push, rebuild every AGGIORNA_FONDO_OGNI frames.  A
\* ValueError leaves main: from the subtraction, when the frame cannot be
\* broadcast against the model, before anything is logged or pushed; from
\* np.stack in the rebuild, after the frame was logged and pushed.
ScanFrame ==
  /\ pc = "scan"
  /\ nacq < MaxAcq
  /\ LET f == acquisisci_frame(copione, nacq + 1)
         n == n_frame + 1
         b == DequeAppend(buffer, f, BUFFER_SIZE)
     IN /\ nacq' = nacq + 1
        /\ n_frame' = n
        /\ IF SubtractRaises(f.gray, fondo)
           THEN /\ pc' = "invalido"
                /\ UNCHANGED << tutti_rilevamenti, rilevato, buffer, fondo, fondo_da >>
           ELSE /\ tutti_rilevamenti' = tutti_rilevamenti \o RilevamentiLive(f.gray, fondo, n)
                /\ rilevato' = [frame |-> f.id, modello |-> fondo_da]
                /\ buffer' = b
                /\ IF n % AGGIORNA_FONDO_OGNI # 0
                   THEN pc' = "tasto" /\ UNCHANGED << fondo, fondo_da >>
                   ELSE IF StackRaises(Grays(b))
                   THEN pc' = "invalido" /\ UNCHANGED << fondo, fondo_da >>
                   ELSE /\ fondo' = calcola_fondo_mediano(Grays(b))
                        /\ fondo_da' = Ids(b)
                        /\ pc' = "tasto"
  /\ UNCHANGED << copione, frames_cal, salvati, arg, ret >>

\* mutant of ScanErrore: the failure is caught and the last frame of the
\* buffer is scanned in place of the missing one
ScanErrore_riusa ==
  /\ pc = "scan"
  /\ LET f == Last(buffer)
         n == n_frame + 1
         b == DequeAppend(buffer, f, BUFFER_SIZE)
     IN /\ n_frame' = n
        /\ tutti_rilevamenti' = tutti_rilevamenti \o RilevamentiLive(f.gray, fondo, n)
        /\ rilevato' = [frame |-> f.id, modello |-> fondo_da]
        /\ buffer' = b
        /\ IF n % AGGIORNA_FONDO_OGNI = 0
           THEN fondo' = calcola_fondo_mediano(Grays(b)) /\ fondo_da' = Ids(b)
           ELSE UNCHANGED << fondo, fondo_da >>
        /\ pc' = "tasto"
  /\ UNCHANGED << copione, nacq, frames_cal, salvati, arg, ret >>

\* cap.read() fails in the loop: RuntimeError leaves main
ScanErrore ==
  /\ pc = "scan"
  /\ pc' = "errore"
  /\ UNCHANGED << copione, nacq, frames_cal, fondo, fondo_da, buffer, n_frame,
                  tutti_rilevamenti, rilevato, salvati, arg, ret >>

\* mutant of TastoQ: the list is written whether or not it is empty
TastoQ_sempre ==
  /\ pc = "tasto"
  /\ pc' = "fine"
  /\ salvati' = Append(salvati, tutti_rilevamenti)
  /\ UNCHANGED << copione, nacq, frames_cal, fondo, fondo_da, buffer, n_frame,
                  tutti_rilevamenti, rilevato, arg, ret >>

\* 'q': leave the loop; the list goes to salva_risultati when it is not empty
TastoQ ==
  /\ pc = "tasto"
  /\ pc' = "fine"
  /\ salvati' = IF tutti_rilevamenti # << >>
                THEN Append(salvati, tutti_rilevamenti) ELSE salvati
  /\ UNCHANGED << copione, nacq, frames_cal, fondo, fondo_da, buffer, n_frame,
                  tutti_rilevamenti, rilevato, arg, ret >>

\* 's': the current frame is written to a file (not part of the state)
TastoS ==
  /\ pc = "tasto"
  /\ pc' = "scan"
  /\ UNCHANGED << copione, nacq, frames_cal, fondo, fondo_da, buffer, n_frame,
                  tutti_rilevamenti, rilevato, salvati, arg, ret >>

\* mutant of TastoR: the recalibration starts the frame count again
TastoR_azzera ==
  /\ pc = "tasto"
  /\ pc' = "calibra"
  /\ n_frame' = 0
  /\ UNCHANGED << copione, nacq, frames_cal, fondo, fondo_da, buffer,
                  tutti_rilevamenti, rilevato, salvati, arg, ret >>

\* 'r': main calls calibra again
TastoR ==
  /\ pc = "tasto"
  /\ pc' = "calibra"
  /\ UNCHANGED << copione, nacq, frames_cal, fondo, fondo_da, buffer, n_frame,
                  tutti_rilevamenti, rilevato, salvati, arg, ret >>

\* no key, or any other key
TastoAltro ==
  /\ pc = "tasto"
  /\ pc' = "scan"
  /\ UNCHANGED << copione, nacq, frames_cal, fondo, fondo_da, buffer, n_frame,
                  tutti_rilevamenti, rilevato, salvati, arg, ret >>

Next ==
  \/ CalibraFrame
  \/ CalibraErrore
  \/ ScanFrame
  \/ ScanErrore
  \/ TastoQ
  \/ TastoS
  \/ TastoR
  \/ TastoAltro

Spec == Init /\ [][Next]_vars

\* the callers of calcola_fondo_mediano on collections it cannot stack:
\* processa_sequenza on the sequences of InitBatch, and the live session
\* behind a camera that does not keep its resolution
InitCambio ==
  /\ pc = "calibra"
  /\ copione \in CopioniCambio
  /\ nacq = 0
  /\ frames_cal = << >>
  /\ fondo = << >>
  /\ fondo_da = {}
  /\ buffer = << >>
  /\ n_frame = 0
  /\ tutti_rilevamenti = << >>
  /\ rilevato = [frame |-> 0, modello |-> {}]
  /\ salvati = << >>
  /\ arg = [live |-> TRUE]
  /\ ret = NonChiamata

InitInvalido == InitBatch \/ InitCambio

NextInvalido == Processa \/ Next

SpecInvalido == InitInvalido /\ [][NextInvalido]_vars


\* ================================================================ claims
Called == ret # NonChiamata
\* a step of the Scanning loop that takes one frame
PassoScan == n_frame' = n_frame + 1
\* the frame that step takes
FrameScan == acquisisci_frame(copione, nacq')

\* C1: the rolling buffer never holds more than BUFFER_SIZE frames; its
\* frames are consecutive acquisitions in insertion order, unaltered, ending
\* with the last frame pushed; a scanned frame pushed onto a full buffer
\* drops exactly the oldest frame, and onto a buffer with room drops nothing.
C1_Rolling ==
  /\ [](/\ Len(buffer) <= BUFFER_SIZE
        /\ \A i \in DOMAIN buffer :
             /\ buffer[i] = acquisisci_frame(copione, buffer[i].id)
             /\ i < Len(buffer) => buffer[i + 1].id = buffer[i].id + 1
        /\ buffer # << >> => Last(buffer).id = nacq - Len(frames_cal))
  /\ [][PassoScan =>
          buffer' = IF Len(buffer) = BUFFER_SIZE
                    THEN Append(Tail(buffer), FrameScan)
                    ELSE Append(buffer, FrameScan)]_vars

\* a full buffer has dropped frames after a recalibration
C1_Witness ==
  /\ pc = "tasto"
  /\ Len(buffer) = BUFFER_SIZE
  /\ buffer[1].id = nacq - BUFFER_SIZE + 1
  /\ buffer[1].id > n_frame

\* C2: a scanned frame whose session number is a multiple of 30 replaces the
\* model by the pixelwise median of the buffer as it is after that frame was
\* pushed, and the loop goes on to the next key poll; any other scanned frame
\* leaves the model as it was.
C2_Rebuild ==
  [][PassoScan =>
       /\ pc' = "tasto"
       /\ IF n_frame' % 30 = 0
          THEN /\ Last(buffer') = FrameScan
               /\ fondo' = calcola_fondo_mediano(Grays(buffer'))
               /\ fondo_da' = Ids(buffer')
          ELSE fondo' = fondo /\ fondo_da' = fondo_da]_vars

\* a rebuild that changed the model: the fixed streak has become background
C2_Witness ==
  /\ pc = "tasto"
  /\ n_frame > 0 /\ n_frame % 30 = 0
  /\ fondo_da = Ids(buffer)
  /\ fondo[<< 0, 0 >>] = FP * 200

\* C3: a scanned frame is detected against the model as it was when the
\* frame arrived, and that model was built only from frames acquired before
\* the frame.
C3_Causal ==
  /\ [](\A k \in rilevato.modello : k < rilevato.frame)
  /\ [][PassoScan =>
          /\ tutti_rilevamenti' =
               tutti_rilevamenti \o RilevamentiLive(FrameScan.gray, fondo, n_frame')
          /\ rilevato' = [frame |-> nacq', modello |-> fondo_da]]_vars

\* a frame with a Debris record on which the model was rebuilt after detection
C3_Witness ==
  /\ pc = "tasto"
  /\ n_frame > 0 /\ n_frame % 30 = 0
  /\ tutti_rilevamenti # << >>
  /\ Last(tutti_rilevamenti).frame = n_frame
  /\ rilevato.modello # fondo_da
  /\ rilevato.frame \in fondo_da

\* C4: while calibra runs, model and buffer stay as they were; the step that
\* completes it, initial or recalibration, puts exactly the 50 frames just
\* captured in the buffer, in capture order, makes the model their median,
\* and resumes Scanning.
C4_Recalibra ==
  /\ [][pc = "calibra" /\ pc' # "scan" => UNCHANGED << fondo, fondo_da, buffer >>]_vars
  /\ [][pc = "calibra" /\ pc' # "calibra" /\ pc' # "errore" =>
          /\ pc' = "scan"
          /\ Len(buffer') = 50
          /\ \A i \in 1 .. 50 : buffer'[i] = acquisisci_frame(copione, nacq' - 50 + i)
          /\ fondo' = calcola_fondo_mediano(Grays(buffer'))
          /\ fondo_da' = Ids(buffer')]_vars

\* a recalibration has completed and its model differs from the initial one
C4_Witness ==
  /\ pc = "scan"
  /\ n_frame > 0
  /\ Len(buffer) = 50
  /\ buffer[1].id = nacq - 49
  /\ fondo_da = Ids(buffer)
  /\ fondo[<< 0, 0 >>] = FP * 200

\* C5: the session list changes only in a Scanning step, which appends one
\* record per Debris of the scanned frame, each with that frame's number;
\* every other step leaves the list as it is.
NDetriti(gray, sfondo) ==
  Len(classifica_oggetti(sogliatura(sottrai_fondo(gray, sfondo), 4).maschera).detriti)

C5_OnlyScan ==
  /\ [][PassoScan =>
          /\ Len(tutti_rilevamenti') = Len(tutti_rilevamenti) + NDetriti(FrameScan.gray, fondo)
          /\ SubSeq(tutti_rilevamenti', 1, Len(tutti_rilevamenti)) = tutti_rilevamenti
          /\ \A j \in Len(tutti_rilevamenti) + 1 .. Len(tutti_rilevamenti') :
               tutti_rilevamenti'[j].frame = n_frame']_vars
  /\ [][~ PassoScan => tutti_rilevamenti' = tutti_rilevamenti]_vars

\* during a recalibration a frame with a streak the model in use would
\* report has just been captured
C5_Witness ==
  /\ pc = "calibra"
  /\ frames_cal # << >>
  /\ tutti_rilevamenti # << >>
  /\ RilevamentiLive(Last(frames_cal).gray, fondo, 0) # << >>

\* C6 as stated: every stopped session has written its list exactly once
C6_Original == pc = "fine" => salvati = << tutti_rilevamenti >>

\* C6, amended: the stop is taken only at the key poll, when the frame just
\* scanned has been detected, pushed and, on a 30th frame, used for the
\* rebuild; it changes nothing but ends the session; the list is written
\* once if it holds a record and not at all if it is empty; nothing is
\* written before the stop.
C6_Stop ==
  /\ [](pc # "fine" => salvati = << >>)
  /\ [](pc = "fine" =>
          salvati = IF tutti_rilevamenti = << >> THEN << >> ELSE << tutti_rilevamenti >>)
  /\ [][pc' = "fine" /\ pc # "fine" =>
          /\ pc = "tasto"
          /\ rilevato.frame = nacq
          /\ Last(buffer).id = nacq
          /\ n_frame % 30 = 0 => fondo_da = Ids(buffer)
          /\ UNCHANGED << nacq, n_frame, fondo, fondo_da, buffer, tutti_rilevamenti >>]_vars

\* a stopped session that wrote a list of several records
C6_Witness ==
  /\ pc = "fine"
  /\ Len(salvati) = 1
  /\ Len(salvati[1]) >= 2


\* C7: processa_sequenza returns the median of all the frames as its model,
\* and its records are, frame by frame in frame order, one per Debris that
\* frame shows against that one model, each with the index of its frame; a
\* frame without Debris has no record.
C7_Batch ==
  (Called /\ "rilevamenti" \in DOMAIN ret) =>
    LET fr == arg.frames
        ril == ret.rilevamenti
        modello == calcola_fondo_mediano(fr)
        Det(i) == classifica_oggetti(
                    sogliatura(sottrai_fondo(fr[i + 1], modello), 4).maschera).detriti
        Di(i) == SelectSeq(ril, LAMBDA r : r.frame_index = i)
    IN /\ ret.fondo = modello
       /\ \A j \in DOMAIN ril : ril[j].frame_index \in 0 .. Len(fr) - 1
       /\ \A j \in 1 .. Len(ril) - 1 : ril[j].frame_index <= ril[j + 1].frame_index
       /\ \A i \in 0 .. Len(fr) - 1 :
            /\ Len(Di(i)) = Len(Det(i))
            /\ \A j \in DOMAIN Di(i) :
                 /\ Di(i)[j].area_px = Det(i)[j].area
                 /\ Di(i)[j].momenti = Det(i)[j].momenti

\* two frames, the first without Debris and without record, the second with
\* one record that carries index 1
C7_Witness ==
  /\ Called /\ "rilevamenti" \in DOMAIN ret
  /\ Len(arg.frames) = 2
  /\ Len(ret.rilevamenti) = 1
  /\ ret.rilevamenti[1].frame_index = 1

\* C8: of the regions of a mask, those of area below 3 are in neither list,
\* those of area at least 15 and eccentricity at least 0.90 are Debris and
\* not Star, and all the others are Star and not Debris.
C8_Classi ==
  (Called /\ "detriti" \in DOMAIN ret) =>
    LET pr == regionprops(label(arg.maschera))
        InD(o) == \E j \in DOMAIN ret.detriti : ret.detriti[j] = Detrito(o)
        InS(o) == \E j \in DOMAIN ret.stelle : ret.stelle[j] = Stella(o)
    IN /\ \A i \in DOMAIN pr :
            /\ pr[i].area < 3 => ~ InD(pr[i]) /\ ~ InS(pr[i])
            /\ pr[i].area >= 3 => (InD(pr[i]) <=> ~ InS(pr[i]))
            /\ InD(pr[i]) <=> (pr[i].area >= 15 /\ EccGE(pr[i], 90))
       /\ Len(ret.detriti) + Len(ret.stelle) =
            Cardinality({i \in DOMAIN pr : pr[i].area >= 3})

\* a region of area 15 and eccentricity exactly 0.90 is in the Debris list,
\* beside a region too small for either list
C8_Witness ==
  /\ Called /\ "detriti" \in DOMAIN ret
  /\ \E j \in DOMAIN ret.detriti :
       ret.detriti[j].area = 15 /\ ret.detriti[j].momenti = << 456, 0, 2400 >>
  /\ \E o \in Range(regionprops(label(arg.maschera))) : o.area < 3

\* C9 as stated, for processa_sequenza: the record's sigma_soglia is the
\* threshold sogliatura applied to the record's frame, to 3 decimals (it is
\* less than a thousandth away from it)
C9_Threshold ==
  (Called /\ "rilevamenti" \in DOMAIN ret) =>
    \A j \in DOMAIN ret.rilevamenti :
      LET r == ret.rilevamenti[j]
          st == sogliatura(sottrai_fondo(arg.frames[r.frame_index + 1], ret.fondo),
                           SIGMA_SOGLIA)
      IN Abs(((FP * SCALA) \div 1000) * r.sigma_soglia - st.soglia) < (FP * SCALA) \div 1000

\* C10: with k1 <= k2 every pixel flagged at k2 is flagged at k1, so k2 flags
\* no more pixels than k1.
Flagged(m) == {p \in DOMAIN m : m[p] = 1}

C10_Monotone ==
  (Called /\ "s1" \in DOMAIN ret) =>
    /\ arg.k1 <= arg.k2
    /\ Flagged(ret.s2.maschera) \subseteq Flagged(ret.s1.maschera)
    /\ Cardinality(Flagged(ret.s2.maschera)) <= Cardinality(Flagged(ret.s1.maschera))

\* a larger multiplier that flags strictly fewer pixels, but still some
C10_Witness ==
  /\ Called /\ "s1" \in DOMAIN ret
  /\ arg.k1 < arg.k2
  /\ Flagged(ret.s2.maschera) # {}
  /\ Cardinality(Flagged(ret.s2.maschera)) < Cardinality(Flagged(ret.s1.maschera))

\* C11: at a pixel where all the frames of the stack but at most one in ten
\* hold the same value, the model holds exactly that value.
Diversi(stack, p, v) == Cardinality({i \in DOMAIN stack : stack[i][p] # v})

C11_Median ==
  (Called /\ "mediano" \in DOMAIN ret) =>
    \A p \in DOMAIN ret.mediano :
      \A v \in {arg.stack[i][p] : i \in DOMAIN arg.stack} :
        10 * Diversi(arg.stack, p, v) <= Len(arg.stack) => ret.mediano[p] = FP * v

\* twenty frames; at one pixel a brighter and a darker object each cover the
\* sky for one frame, and the model holds the sky's value there
C11_Witness ==
  /\ Called /\ "mediano" \in DOMAIN ret
  /\ Len(arg.stack) = 20
  /\ Diversi(arg.stack, << 0, 0 >>, Quieto[<< 0, 0 >>]) = 2
  /\ \E i, j \in DOMAIN arg.stack :
       arg.stack[i][<< 0, 0 >>] > Quieto[<< 0, 0 >>] /\ arg.stack[j][<< 0, 0 >>] < Quieto[<< 0, 0 >>]
  /\ ret.mediano[<< 0, 0 >>] = FP * Quieto[<< 0, 0 >>]

\* a collection is invalid when it is empty or its frames do not all have
\* the same resolution
Disuguali(frames) == \E i, j \in DOMAIN frames : DOMAIN frames[i] # DOMAIN frames[j]
Invalida(frames) == Len(frames) = 0 \/ Disuguali(frames)

\* the collection last handed to the model's construction in the live
\* session: the completed calibration list, or else the buffer
Raccolta == IF Len(frames_cal) = N_FRAME_CALIBRAZIONE THEN frames_cal ELSE buffer

C13_Fatal ==
  /\ [][(pc \in { "calibra", "scan" } /\ nacq' = nacq) =>
          /\ pc' = "errore"
          /\ UNCHANGED << frames_cal, fondo, fondo_da, buffer, n_frame,
                          tutti_rilevamenti, rilevato, salvati >>]_vars
  /\ [][pc' = "errore" => pc \in { "calibra", "scan" } /\ nacq' = nacq]_vars
  /\ [][pc # "errore"]_vars
  /\ [](pc = "errore" => salvati = << >>)

\* the camera failed during a recalibration, after frames of it had been
\* captured and with records in the list
C13_Witness ==
  /\ pc = "errore"
  /\ n_frame > 0
  /\ frames_cal # << >>
  /\ tutti_rilevamenti # << >>
  /\ Last(buffer).id < nacq

\* C14: the frame counter changes only in a Scanning step that takes a
\* frame, by one; calibration frames and the recalibration key leave it, so
\* it is the number of frames delivered outside calibrations; the model
\* changes during Scanning only on a count that is a multiple of 30; the
\* frame numbers of the list never decrease and never exceed the counter.
C14_Counter ==
  /\ [][n_frame' # n_frame =>
          /\ pc = "scan" /\ pc' = "tasto"
          /\ nacq' = nacq + 1
          /\ n_frame' = n_frame + 1]_vars
  /\ [][pc = "scan" /\ nacq' = nacq + 1 => n_frame' = n_frame + 1]_vars
  /\ []((nacq - Len(frames_cal) - n_frame) % N_FRAME_CALIBRAZIONE = 0)
  /\ [][pc = "scan" /\ fondo_da' # fondo_da => n_frame' % 30 = 0]_vars
  /\ [][pc = "scan" /\ n_frame' % 30 = 0 /\ n_frame' # n_frame =>
          fondo_da' = Ids(buffer')]_vars
  /\ [](\A j \in DOMAIN tutti_rilevamenti :
          /\ tutti_rilevamenti[j].frame \in 1 .. n_frame
          /\ j > 1 => tutti_rilevamenti[j - 1].frame <= tutti_rilevamenti[j].frame)

\* a rebuild on a multiple of 30 that comes fewer than 30 scanned frames
\* after a recalibration: the buffer holds the 50 frames of the
\* recalibration and fewer than 30 more
C14_Witness ==
  /\ pc = "tasto"
  /\ n_frame > 0 /\ n_frame % 30 = 0
  /\ fondo_da = Ids(buffer)
  /\ Len(buffer) > N_FRAME_CALIBRAZIONE
  /\ Len(buffer) < N_FRAME_CALIBRAZIONE + 30
  /\ tutti_rilevamenti # << >>

====
